---- MODULE Spec2Model ----
(***************************************************************************)
(* Model of the page scripts: the search index widget                     *)
(* (nav/search_index.js), the cookie vault (tk/cookie.js), the sidebar     *)
(* (nav/sidebar.js), dark mode (ux/dark_mode.js) and the dice roller       *)
(* (dice/control.js).  Each script has a specification of its own, which   *)
(* leaves the state of the other scripts alone.                            *)
(*                                                                         *)
(* Strings are sequences of one-character strings.  Scores are the exact   *)
(* rationals num/den of the IEEE doubles the script computes; for every    *)
(* query length <= 4 and title length <= 40 with query no longer than the  *)
(* title, the doubles (q/l)*10 and q/l compare exactly as the rationals    *)
(* do.  Array.prototype.sort is the stable sort of ECMAScript 2019.        *)
(***************************************************************************)
EXTENDS Integers, Sequences, FiniteSets, TLC

VARIABLES
  site_index,   \* the page's title -> url table, in Object.keys order
  focused,      \* whether the index_query input has the keyboard focus
  query,        \* value of the index_query input
  sel_idx,      \* selection cursor of the script
  results,      \* children of the index_results container
  visible,      \* whether the index_results container is shown
  list,         \* local 'list' of the most recent search_index call
  event,        \* the most recent event and what its handler did
  trail,        \* the arrow keys released since the cursor was none
  jar,          \* document.cookie: the cookies the browser keeps
  vault,        \* the vault object of tk/cookie.js
  page,         \* the sidebar section that links to the current page
  nav_open,     \* per sidebar section, whether its list is shown
  toggled,      \* the sections the user has toggled since the first load
  body_dark,    \* whether body has the class 'dark_mode'
  button,       \* value of the toggle_dark_mode button
  chains,       \* the closures of the new_dice calls, in call order
  timers,       \* the pending timeouts, in the order they come due
  dice_result   \* content of the dice_result element

widgetVars == <<site_index, focused, query, sel_idx, results, visible, list>>
cookieVars == <<jar, vault>>
pageVars == <<page, nav_open, toggled, body_dark, button>>
diceVars == <<chains, timers, dice_result>>

vars == <<widgetVars, event, trail, cookieVars, pageVars, diceVars>>

----------------------------------------------------------------------------
(* Bounds of the model *)

MaxQueryLen == 2

\* arrow keys released in a row
MaxPresses == 3

\* characters the user types into the query input
QueryChars == {"o", "n", ".", "("}

----------------------------------------------------------------------------
(* Characters and strings *)

\* the characters of the model in code unit order
Alphabet ==
  <<" ", "(", ".", "B", "C", "D", "G", "H", "L", "M", "N", "O", "P", "R",
    "T", "W", "a", "b", "c", "d", "e", "f", "g", "h", "i", "l", "m", "n",
    "o", "p", "r", "s", "t", "u", "w", "y", "z">>

CodeOf ==
  [c \in {Alphabet[i] : i \in 1..Len(Alphabet)} |->
     CHOOSE i \in 1..Len(Alphabet) : Alphabet[i] = c]

CharCode(c) == CodeOf[c]

LowerOf ==
  [c \in {"B", "C", "D", "G", "H", "L", "M", "N", "O", "P", "R", "T", "W"} |->
     CASE c = "B" -> "b" [] c = "C" -> "c" [] c = "D" -> "d" [] c = "G" -> "g"
       [] c = "H" -> "h" [] c = "L" -> "l" [] c = "M" -> "m" [] c = "N" -> "n"
       [] c = "O" -> "o" [] c = "P" -> "p" [] c = "R" -> "r" [] c = "T" -> "t"
       [] c = "W" -> "w"]

CharToLowerCase(c) == IF c \in DOMAIN LowerOf THEN LowerOf[c] ELSE c

\* String.prototype.toLowerCase
toLowerCase(s) == [i \in 1..Len(s) |-> CharToLowerCase(s[i])]

\* the relational comparison a < b of two strings: by code units, a proper
\* prefix is smaller
RECURSIVE StringLess(_, _)
StringLess(a, b) ==
  IF b = <<>> THEN FALSE
  ELSE IF a = <<>> THEN TRUE
  ELSE IF CharCode(Head(a)) < CharCode(Head(b)) THEN TRUE
  ELSE IF CharCode(Head(a)) > CharCode(Head(b)) THEN FALSE
  ELSE StringLess(Tail(a), Tail(b))

----------------------------------------------------------------------------
(* The site indexes the hosting page may supply *)

Goblin == <<"G", "o", "b", "l", "i", "n">>
Gorgon == <<"G", "o", "r", "g", "o", "n">>
Dragon == <<"D", "r", "a", "g", "o", "n">>
Oni    == <<"O", "n", "i">>
Ogre   == <<"O", "g", "r", "e">>
Ooze   == <<"O", "o", "z", "e">>
Roc    == <<"R", "o", "c">>
Wolf   == <<"W", "o", "l", "f">>
Boar   == <<"B", "o", "a", "r">>
Goat   == <<"G", "o", "a", "t">>
Toad   == <<"T", "o", "a", "d">>
Crow   == <<"C", "r", "o", "w">>
Lion   == <<"L", "i", "o", "n">>
Pony   == <<"P", "o", "n", "y">>
Mold   == <<"M", "o", "l", "d">>
Bat    == <<"B", "a", "t">>
No     == <<"N", "o">>
\* 20 characters
OniOfTheNineHells ==
  <<"O", "n", "i", " ", "o", "f", " ", "t", "h", "e", " ",
    "N", "i", "n", "e", " ", "H", "e", "l", "l">>
\* 21 characters
OgreOfTheNineHells ==
  <<"O", "g", "r", "e", " ", "o", "f", " ", "t", "h", "e", " ",
    "N", "i", "n", "e", " ", "H", "e", "l", "l">>

Entry(t, u) == [title |-> t, url |-> u]

IndexSpecScenario ==
  <<Entry(Goblin, "/goblin"), Entry(Gorgon, "/gorgon"),
    Entry(Dragon, "/dragon")>>

IndexReversed ==
  <<Entry(Dragon, "/dragon"), Entry(Gorgon, "/gorgon"),
    Entry(Goblin, "/goblin"), Entry(Oni, "/oni")>>

IndexMany ==
  <<Entry(Wolf, "/wolf"), Entry(Oni, "/oni"), Entry(Ogre, "/ogre"),
    Entry(Roc, "/roc"), Entry(Ooze, "/ooze"), Entry(Boar, "/boar"),
    Entry(Goat, "/goat"), Entry(Toad, "/toad"), Entry(Crow, "/crow"),
    Entry(Lion, "/lion"), Entry(Pony, "/pony"), Entry(Mold, "/mold"),
    Entry(Bat, "/bat")>>

IndexLong ==
  <<Entry(OgreOfTheNineHells, "/ogre-hell"), Entry(No, "/no"),
    Entry(OniOfTheNineHells, "/oni-hell"), Entry(Bat, "/bat")>>

SiteIndexes == {IndexSpecScenario, IndexReversed, IndexMany, IndexLong}

Titles(index) == {index[i].title : i \in 1..Len(index)}

----------------------------------------------------------------------------
(* new RegExp(query,'i') for queries over QueryChars *)

\* an unmatched '(' is a SyntaxError of the RegExp constructor
RegExpThrows(q) == \E i \in 1..Len(q) : q[i] = "("

\* one pattern character against one title character under the 'i' flag:
\* '.' matches every character that is not a line terminator
AtomMatches(p, c) == p = "." \/ CharToLowerCase(p) = CharToLowerCase(c)

MatchesAt(q, title, i) ==
  /\ i + Len(q) <= Len(title)
  /\ \A j \in 1..Len(q) : AtomMatches(q[j], title[i + j])

\* lead.test(title), lead = new RegExp(`^${query}`,'i')
lead_test(q, title) == MatchesAt(q, title, 0)

\* partial.test(title), partial = new RegExp(query,'i')
partial_test(q, title) == \E i \in 0..Len(title) : MatchesAt(q, title, i)

----------------------------------------------------------------------------
(* Scoring, sorting and truncation of search_index *)

\* the result list is cut to this many entries
MaxResults == 10

\* factor of a lead match's score
LeadFactor == 10

\* String.prototype.toLowerCase itself: 'title_lc' holds the method, not its
\* result; in a comparison it converts to the text of its source
NativeToLowerCase == <<"f", "u", "n", "c", "t", "i", "o", "n">>

\* Score with the substring branch lost
ScoreLeadOnly(q, title) ==
  IF lead_test(q, title)
    THEN [num |-> Len(q) * LeadFactor, den |-> Len(title)]
    ELSE [num |-> 0, den |-> 1]

\* Score with the factor of the lead branch lost
ScoreNoFactor(q, title) ==
  IF lead_test(q, title) \/ partial_test(q, title)
    THEN [num |-> Len(q), den |-> Len(title)]
    ELSE [num |-> 0, den |-> 1]

\* score of one title: the double num/den
Score(q, title) ==
  IF lead_test(q, title)
    THEN [num |-> Len(q) * LeadFactor, den |-> Len(title)]
    ELSE IF partial_test(q, title)
      THEN [num |-> Len(q), den |-> Len(title)]
      ELSE [num |-> 0, den |-> 1]

ScoreGreater(a, b) == a.num * b.den > b.num * a.den

ScorePositive(s) == s.num > 0

\* the record pushed for a title
Candidate(e, q) ==
  [title    |-> e.title,
   url      |-> e.url,
   score    |-> Score(q, e.title),
   title_lc |-> NativeToLowerCase]

\* the forEach over Object.keys(site_index): the titles of positive score
Candidates(index, q) ==
  SelectSeq([i \in 1..Len(index) |-> Candidate(index[i], q)],
            LAMBDA c : ScorePositive(c.score))

\* the comparison function handed to list.sort
Compare(a, b) ==
  IF ScoreGreater(a.score, b.score) THEN -1
  ELSE IF ScoreGreater(b.score, a.score) THEN 1
  ELSE IF StringLess(b.title_lc, a.title_lc) THEN 1
  ELSE IF StringLess(a.title_lc, b.title_lc) THEN -1
  ELSE 0

\* Array.prototype.sort: stable, so x goes behind every entry it does not
\* have to precede
RECURSIVE SortInsert(_, _)
SortInsert(s, x) ==
  IF s = <<>> THEN <<x>>
  ELSE IF Compare(x, Head(s)) < 0 THEN <<x>> \o s
  ELSE <<Head(s)>> \o SortInsert(Tail(s), x)

RECURSIVE Sort(_)
Sort(l) ==
  IF l = <<>> THEN <<>>
  ELSE SortInsert(Sort(SubSeq(l, 1, Len(l) - 1)), l[Len(l)])

\* Truncate slicing one entry too many
TruncateOffByOne(l) ==
  IF Len(l) > MaxResults THEN SubSeq(l, 1, MaxResults + 1) ELSE l

\* list.slice(0,10) when the list is longer
Truncate(l) == IF Len(l) > MaxResults THEN SubSeq(l, 1, MaxResults) ELSE l

\* the local 'list' of search_index when it reaches the key dispatch
RankedList(index, q) ==
  LET l == Candidates(index, q)
  IN  IF Len(l) > 0 THEN Truncate(Sort(l)) ELSE l

\* the texts the query input can hold
Queries == UNION {[1..n -> QueryChars] : n \in 0..MaxQueryLen}

\* RankedList of every index and query text of the model
\* (comparing the function makes TLC tabulate it once)
RankedTable ==
  LET t == [p \in SiteIndexes \X Queries |-> RankedList(p[1], p[2])]
  IN  IF t = t THEN t ELSE t

----------------------------------------------------------------------------
(* Rendering *)

\* list[sel_idx]['selected'] = true when sel_idx is an index of the list
MarkSelected(l, sel) ==
  [i \in 1..Len(l) |->
     [title    |-> l[i].title,
      url      |-> l[i].url,
      selected |-> (sel >= 0 /\ sel < Len(l) /\ i = sel + 1)]]

\* the li built by render_item around the a built by render_link
render_item(match) ==
  [href  |-> match.url,
   text  |-> match.title,
   class |-> IF match.selected THEN "selected" ELSE ""]

\* the children of the ul that render_results puts into index_results
render_results(l, sel) ==
  LET marked == MarkSelected(l, sel)
  IN  [i \in 1..Len(l) |-> render_item(marked[i])]

----------------------------------------------------------------------------
(* State of the widget *)

Min(a, b) == IF a < b THEN a ELSE b
Max(a, b) == IF a > b THEN a ELSE b

\* key codes of the keyup events: the three the handler names, and two keys
\* that stand for every other key
KeyCodes == {"ArrowDown", "ArrowUp", "Enter", "KeyO", "Backspace"}

NoError == "none"

\* what is recorded of an event: the kind of event, the key code of a keyup,
\* the query its handler read, the error that ended the handler, and the
\* URLs handed to window.location.assign
Event(op, code, q, threw, nav) ==
  [op |-> op, code |-> code, query |-> q, threw |-> threw, nav |-> nav]

\* the state of the scripts that a specification does not run
CookiesIdle == jar = <<>> /\ vault = <<>>
PageIdle ==
  /\ page = "none"
  /\ nav_open = <<>>
  /\ toggled = {}
  /\ body_dark = FALSE
  /\ button = ""
DiceIdle == chains = <<>> /\ timers = <<>> /\ dice_result = ""
WidgetIdle ==
  /\ site_index = <<>>
  /\ focused = FALSE
  /\ query = <<>>
  /\ sel_idx = -1
  /\ results = <<>>
  /\ visible = FALSE
  /\ list = <<>>
  /\ trail = <<>>
OtherScriptsIdle == CookiesIdle /\ PageIdle /\ DiceIdle

\* let sel_idx = -1, and the dom:loaded handler's clear_search_index()
Init ==
  /\ site_index \in SiteIndexes
  /\ focused = FALSE
  /\ query = <<>>
  /\ sel_idx = -1
  /\ results = <<>>
  /\ visible = FALSE
  /\ list = <<>>
  /\ event = Event("load", "", <<>>, NoError, <<>>)
  /\ trail = <<>>
  /\ OtherScriptsIdle

\* clear_search_index: empties the query input, empties and hides the
\* results container; sel_idx is not assigned
clear_search_index ==
  /\ query' = <<>>
  /\ results' = <<>>
  /\ visible' = FALSE
  /\ UNCHANGED <<sel_idx, site_index>>

\* the branch of search_index for an empty list
HideResults ==
  /\ results' = <<>>
  /\ visible' = FALSE
  /\ UNCHANGED <<query, sel_idx, site_index>>

\* ArrowDownIndex without the upper limit
ArrowDownUnlimited(sel, n) == sel + 1

\* sel_idx after ArrowDown on a list of n entries
ArrowDownIndex(sel, n) == Min(sel + 1, n - 1)

\* ArrowUpIndex without the lower limit
ArrowUpUnlimited(sel) == sel - 1

\* sel_idx after ArrowUp
ArrowUpIndex(sel) == Max(sel - 1, 0)

\* IndexAfterRender with the mark written to the entry of the index
IndexMarked(index, l, sel) ==
  [i \in 1..Len(index) |->
     IF sel >= 0 /\ sel < Len(l) /\ index[i].title = l[sel + 1].title
       THEN [title |-> index[i].title, url |-> index[i].url, selected |-> TRUE]
       ELSE index[i]]

\* the index after a search and its render: the handler reads its keys and
\* urls, and 'selected' is set on a record of the handler's own list
IndexAfterRender(index, l, sel) == index

\* the branches of search_index that set sel_idx and render
Render(l, sel) ==
  /\ sel_idx' = sel
  /\ results' = render_results(l, sel)
  /\ visible' = TRUE
  /\ site_index' = IndexAfterRender(site_index, l, sel)
  /\ UNCHANGED query

\* the keyup handler of the query input
search_index(code) ==
  IF RegExpThrows(query)
    THEN /\ event' = Event("keyup", code, query, "SyntaxError", <<>>)
         /\ list' = <<>>
         /\ UNCHANGED <<site_index, query, sel_idx, results, visible>>
    ELSE LET l == RankedTable[<<site_index, query>>]
         IN  /\ list' = l
             /\ IF Len(l) > 0
                  THEN CASE code = "ArrowDown" ->
                              /\ Render(l, ArrowDownIndex(sel_idx, Len(l)))
                              /\ event' = Event("keyup", code, query, NoError, <<>>)
                         [] code = "ArrowUp" ->
                              /\ Render(l, ArrowUpIndex(sel_idx))
                              /\ event' = Event("keyup", code, query, NoError, <<>>)
                         [] code = "Enter" ->
                              IF sel_idx = -1
                                THEN /\ clear_search_index
                                     /\ event' = Event("keyup", code, query, NoError,
                                                       <<l[1].url>>)
                                ELSE IF sel_idx + 1 \in DOMAIN l
                                  THEN /\ clear_search_index
                                       /\ event' = Event("keyup", code, query, NoError,
                                                         <<l[sel_idx + 1].url>>)
                                  \* list[sel_idx] is undefined
                                  ELSE /\ event' = Event("keyup", code, query,
                                                         "TypeError", <<>>)
                                       /\ UNCHANGED <<site_index, query, sel_idx,
                                                       results, visible>>
                         [] OTHER ->
                              /\ Render(l, -1)
                              /\ event' = Event("keyup", code, query, NoError, <<>>)
                  ELSE /\ HideResults
                       /\ event' = Event("keyup", code, query, NoError, <<>>)

\* a key is released in the query input
KeyUp ==
  /\ focused
  /\ \E code \in KeyCodes : search_index(code)
  /\ UNCHANGED focused
  /\ UNCHANGED <<trail, cookieVars, pageVars, diceVars>>

\* the user adds a character to the text of the query input
TypeChar ==
  /\ focused
  /\ Len(query) < MaxQueryLen
  /\ \E c \in QueryChars : query' = Append(query, c)
  /\ event' = Event("input", "", <<>>, NoError, <<>>)
  /\ UNCHANGED <<site_index, focused, sel_idx, results, visible, list>>
  /\ UNCHANGED <<trail, cookieVars, pageVars, diceVars>>

\* the user deletes the last character of the query input
DeleteChar ==
  /\ focused
  /\ Len(query) > 0
  /\ query' = SubSeq(query, 1, Len(query) - 1)
  /\ event' = Event("input", "", <<>>, NoError, <<>>)
  /\ UNCHANGED <<site_index, focused, sel_idx, results, visible, list>>
  /\ UNCHANGED <<trail, cookieVars, pageVars, diceVars>>

\* a click anywhere in the document; it lands on the query input or not
Click ==
  /\ clear_search_index
  /\ focused' \in BOOLEAN
  /\ list' = <<>>
  /\ event' = Event("click", "", <<>>, NoError, <<>>)
  /\ UNCHANGED <<trail, cookieVars, pageVars, diceVars>>

\* the '/' key binding, which Mousetrap does not fire inside an input
Slash ==
  /\ ~focused
  /\ clear_search_index
  /\ focused' = TRUE
  /\ list' = <<>>
  /\ event' = Event("slash", "", <<>>, NoError, <<>>)
  /\ UNCHANGED <<trail, cookieVars, pageVars, diceVars>>

\* the page is loaded again: the script runs from the top and dom:loaded fires
DomLoaded ==
  /\ focused' = FALSE
  /\ query' = <<>>
  /\ sel_idx' = -1
  /\ results' = <<>>
  /\ visible' = FALSE
  /\ list' = <<>>
  /\ event' = Event("load", "", <<>>, NoError, <<>>)
  /\ UNCHANGED site_index
  /\ UNCHANGED <<trail, cookieVars, pageVars, diceVars>>

Next ==
  \/ KeyUp
  \/ TypeChar
  \/ DeleteChar
  \/ Click
  \/ Slash
  \/ DomLoaded

Spec == Init /\ [][Next]_vars

----------------------------------------------------------------------------
(* Arrow keys on a fixed query *)

\* the widget after the text q was typed and the keyup of its last key was
\* handled with the cursor at none
InitArrows ==
  /\ site_index \in SiteIndexes
  /\ focused = TRUE
  /\ query \in Queries
  /\ sel_idx = -1
  /\ list = IF RegExpThrows(query) THEN <<>>
            ELSE RankedTable[<<site_index, query>>]
  /\ results = render_results(list, -1)
  /\ visible = (list # <<>>)
  /\ event = Event("keyup", "KeyO", query,
                   IF RegExpThrows(query) THEN "SyntaxError" ELSE NoError,
                   <<>>)
  /\ trail = <<>>
  /\ OtherScriptsIdle

\* an arrow key is released in the query input
ArrowKey ==
  /\ focused
  /\ Len(trail) < MaxPresses
  /\ \E code \in {"ArrowDown", "ArrowUp"} :
       /\ search_index(code)
       /\ trail' = Append(trail, code)
  /\ UNCHANGED <<focused, cookieVars, pageVars, diceVars>>

NextArrows == ArrowKey

SpecArrows == InitArrows /\ [][NextArrows]_vars

----------------------------------------------------------------------------
(* tk/cookie.js *)

\* JavaScript values
Str(x) == [t |-> "string", s |-> x]
Num(x) == [t |-> "number", n |-> x]
Bool(x) == [t |-> "boolean", b |-> x]
Obj(x) == [t |-> "object", o |-> x]
Undefined == [t |-> "undefined"]

\* the value as the condition of an if
Truthy(v) ==
  CASE v.t = "string" -> v.s # ""
    [] v.t = "number" -> v.n # 0
    [] v.t = "boolean" -> v.b
    [] v.t = "object" -> TRUE
    [] OTHER -> FALSE

\* objects are functions from their keys: o[k] = v, delete o[k]
Put(o, k, v) == [x \in (DOMAIN o) \cup {k} |-> IF x = k THEN v ELSE o[x]]
Remove(o, k) == [x \in (DOMAIN o) \ {k} |-> o[x]]

\* the text of a cookie: a string as it is, any other value as 'json:' and
\* its JSON (no string of the model starts with 'json:')
CookieText(value) ==
  IF value.t = "string" THEN [text |-> value.s] ELSE [json |-> value]

\* the value load_cookies reads from the text of a cookie
ParseText(c) == IF "json" \in DOMAIN c THEN c.json ELSE Str(c.text)

\* load_cookies: an empty document.cookie splits into one empty text, whose
\* key is '' and whose value decodes to 'undefined'
load_cookies(j) ==
  IF DOMAIN j = {} THEN ("" :> Str("undefined"))
  ELSE [k \in DOMAIN j |-> ParseText(j[k])]

\* get_cookie(key) for a key that is not ''
get_cookie(v, key) == IF key \in DOMAIN v THEN v[key] ELSE Undefined

\* set_cookie on the pair c of vault and jar; the browser drops a cookie
\* whose expiry date is 'forthwith' and keeps one that expires 'never'
set_cookie(c, key, value, expires) ==
  [vault |-> Put(c.vault, key, value),
   jar   |-> IF expires = "forthwith" THEN Remove(c.jar, key)
             ELSE Put(c.jar, key, CookieText(value))]

persistent_cookie(c, key, value) == set_cookie(c, key, value, "never")

\* set_cookie_chip: an assignment to a key of a primitive value is lost
set_cookie_chip(c, key, chip, value) ==
  LET cookie == IF Truthy(get_cookie(c.vault, key)) THEN c.vault[key]
                ELSE Obj(<<>>)
  IN  persistent_cookie(c, key,
        IF cookie.t = "object" THEN Obj(Put(cookie.o, chip, value))
        ELSE cookie)

\* delete_cookie that only expires the browser's cookie
delete_cookie_jar_only(c, key) ==
  [vault |-> c.vault, jar |-> Remove(c.jar, key)]

delete_cookie(c, key) ==
  IF Truthy(get_cookie(c.vault, key))
    THEN set_cookie([vault |-> Remove(c.vault, key), jar |-> c.jar],
                    key, Str(""), "forthwith")
    ELSE c

Cookies == [vault |-> vault, jar |-> jar]

\* keys and values of the calls of the cookie functions
CookieKeys == {"dark_mode", "nav"}
CookieValues ==
  {Str(""), Str("x"), Num(0), Num(1), Bool(FALSE), Obj(<<>>)}

\* a page without cookies has run tk/cookie.js
InitCookie ==
  /\ jar = <<>>
  /\ vault = load_cookies(<<>>)
  /\ event = Event("load", "", <<>>, NoError, <<>>)
  /\ WidgetIdle /\ PageIdle /\ DiceIdle

\* a script calls persistent_cookie(key,value)
CookieSet ==
  /\ \E key \in CookieKeys : \E value \in CookieValues :
       /\ vault' = persistent_cookie(Cookies, key, value).vault
       /\ jar' = persistent_cookie(Cookies, key, value).jar
       /\ event' = Event("persistent_cookie", key, <<>>, NoError, <<>>)
  /\ UNCHANGED <<widgetVars, trail, pageVars, diceVars>>

\* a script calls delete_cookie(key)
CookieDelete ==
  /\ \E key \in CookieKeys :
       /\ vault' = delete_cookie(Cookies, key).vault
       /\ jar' = delete_cookie(Cookies, key).jar
       /\ event' = Event("delete_cookie", key, <<>>, NoError, <<>>)
  /\ UNCHANGED <<widgetVars, trail, pageVars, diceVars>>

\* the page is loaded again and tk/cookie.js runs load_cookies
CookieLoad ==
  /\ vault' = load_cookies(jar)
  /\ event' = Event("load", "", <<>>, NoError, <<>>)
  /\ UNCHANGED <<jar, widgetVars, trail, pageVars, diceVars>>

NextCookie ==
  \/ CookieSet
  \/ CookieDelete
  \/ CookieLoad

SpecCookie == InitCookie /\ [][NextCookie]_vars

----------------------------------------------------------------------------
(* nav/sidebar.js and ux/dark_mode.js *)

\* list ids of the sidebar sections: the keys of default_nav (general,
\* fantasy, d&d 5e), the two ids init_sidebar_nav always opens, and a
\* section that is neither
DefaultSections == {"0db3", "f8e1", "2bff"}
PinnedSections == {"cff1", "3177"}
Sections == DefaultSections \cup PinnedSections \cup {"other"}

default_nav == [id \in DefaultSections |-> "show"]

\* the section whose list links to the current page, if any
Pages == Sections \cup {"none"}

\* value of the toggle_dark_mode button in the page's markup
MarkupButton == "Dark Mode"

\* 'state' of init_sidebar_nav after its first loop: the nav cookie or
\* default_nav, with the section of the current page set to 'show'
nav_state(v, pg) ==
  LET state == IF Truthy(get_cookie(v, "nav")) THEN v["nav"].o
               ELSE default_nav
  IN  IF pg = "none" THEN state ELSE Put(state, pg, "show")

\* the vault after init_sidebar_nav: 'state' is the object of the vault
\* when the nav cookie exists
nav_vault(v, pg) ==
  IF Truthy(get_cookie(v, "nav")) THEN Put(v, "nav", Obj(nav_state(v, pg)))
  ELSE v

\* the second loop of init_sidebar_nav: which lists stay shown
nav_disclosed(state) ==
  [id \in Sections |->
     \/ id \in PinnedSections
     \/ (id \in DOMAIN state /\ state[id] = "show")]

\* the dom:loaded handlers of tk/cookie.js, nav/sidebar.js and
\* ux/dark_mode.js on the page pg with the cookies j
LoadPage(j, pg) ==
  LET v == load_cookies(j)
  IN  /\ page' = pg
      /\ jar' = j
      /\ vault' = nav_vault(v, pg)
      /\ nav_open' = nav_disclosed(nav_state(v, pg))
      /\ body_dark' = Truthy(get_cookie(v, "dark_mode"))
      /\ button' = IF Truthy(get_cookie(v, "dark_mode")) THEN "Undark Mode"
                   ELSE MarkupButton

\* the first page load, without cookies
InitPage ==
  /\ jar = <<>>
  /\ page \in Pages
  /\ vault = nav_vault(load_cookies(<<>>), page)
  /\ nav_open = nav_disclosed(nav_state(load_cookies(<<>>), page))
  /\ body_dark = FALSE
  /\ button = MarkupButton
  /\ toggled = {}
  /\ event = Event("load", "", <<>>, NoError, <<>>)
  /\ WidgetIdle /\ DiceIdle

\* the user goes to a page of the site
PageLoad ==
  /\ \E pg \in Pages : LoadPage(jar, pg)
  /\ event' = Event("load", "", <<>>, NoError, <<>>)
  /\ UNCHANGED <<toggled, widgetVars, trail, diceVars>>

\* toggle_section on the h2 of section id (the slide effects taken as done)
toggle_section(id) ==
  LET c == set_cookie_chip(Cookies, "nav", id,
             IF nav_open[id] THEN "hide" ELSE "show")
  IN  /\ nav_open' = [nav_open EXCEPT ![id] = ~nav_open[id]]
      /\ vault' = c.vault
      /\ jar' = c.jar

\* a click on the h2 of a section that has the handler
ToggleSection ==
  /\ \E id \in Sections \ PinnedSections :
       /\ toggle_section(id)
       /\ toggled' = toggled \cup {id}
       /\ event' = Event("toggle_section", id, <<>>, NoError, <<>>)
  /\ UNCHANGED <<page, body_dark, button, widgetVars, trail, diceVars>>

\* toggle_dark_mode, with enable_dark_mode and disable_dark_mode
toggle_dark_mode ==
  IF Truthy(get_cookie(vault, "dark_mode"))
    THEN /\ body_dark' = FALSE
         /\ button' = "Dark Mode"
         /\ vault' = delete_cookie(Cookies, "dark_mode").vault
         /\ jar' = delete_cookie(Cookies, "dark_mode").jar
    ELSE /\ body_dark' = TRUE
         /\ button' = "Undark Mode"
         /\ vault' = persistent_cookie(Cookies, "dark_mode", Num(1)).vault
         /\ jar' = persistent_cookie(Cookies, "dark_mode", Num(1)).jar

\* a click on the toggle_dark_mode button
ToggleDarkMode ==
  /\ toggle_dark_mode
  /\ event' = Event("toggle_dark_mode", "", <<>>, NoError, <<>>)
  /\ UNCHANGED <<page, nav_open, toggled, widgetVars, trail, diceVars>>

NextPage ==
  \/ PageLoad
  \/ ToggleSection
  \/ ToggleDarkMode

SpecPage == InitPage /\ [][NextPage]_vars

----------------------------------------------------------------------------
(* dice/control.js *)

MaxRolls == 3

\* what multi_dice and roll_dice_det may return
DiceResults == {"7", "12"}

\* content of the dice_result element in the page's markup
MarkupResult == ""

\* dice_out filled with the result first
dice_out_result_first(result) == <<result, ".", "..", "...">>

\* dice_out of new_dice
dice_out(result) == <<".", "..", "...", result>>

\* the closure of one call of new_dice: its dice_out, with the result it
\* rolled, the updates it has made and the number of timers that were
\* pending when it was called
Chain(result, pending) ==
  [dice_out |-> dice_out(result), result |-> result, shown |-> <<>>,
   pending |-> pending]

\* setTimeout(dice_result,100) of chain id: timers of equal delay fire in
\* the order they were scheduled
SetTimeout(q, id) == Append(q, id)

\* new_dice, rolling result
new_dice(result) ==
  /\ chains' = Append(chains, Chain(result, Len(timers)))
  /\ timers' = SetTimeout(timers, Len(chains) + 1)
  /\ UNCHANGED dice_result

\* after dom:loaded: new_dice has been called once
InitDice ==
  /\ \E result \in DiceResults : chains = <<Chain(result, 0)>>
  /\ timers = SetTimeout(<<>>, 1)
  /\ dice_result = MarkupResult
  /\ event = Event("new_dice", "", <<>>, NoError, <<>>)
  /\ WidgetIdle /\ CookiesIdle /\ PageIdle

\* submit, change or click of the dice form
NewDice ==
  /\ Len(chains) < MaxRolls
  /\ \E result \in DiceResults : new_dice(result)
  /\ event' = Event("new_dice", "", <<>>, NoError, <<>>)
  /\ UNCHANGED <<widgetVars, trail, cookieVars, pageVars>>

\* the inner function dice_result of chain id
dice_result_fn(id, q) ==
  LET c == chains[id]
  IN  IF c.dice_out # <<>>
        THEN /\ dice_result' = Head(c.dice_out)
             /\ chains' = [chains EXCEPT
                             ![id].dice_out = Tail(c.dice_out),
                             ![id].shown = Append(c.shown, Head(c.dice_out))]
             /\ timers' = IF Tail(c.dice_out) # <<>> THEN SetTimeout(q, id)
                          ELSE q
        ELSE /\ timers' = q
             /\ UNCHANGED <<dice_result, chains>>

\* the earliest pending timer fires
TimerFires ==
  /\ timers # <<>>
  /\ dice_result_fn(Head(timers), Tail(timers))
  /\ event' = Event("timer", "", <<>>, NoError, <<>>)
  /\ UNCHANGED <<widgetVars, trail, cookieVars, pageVars>>

NextDice ==
  \/ NewDice
  \/ TimerFires

SpecDice == InitDice /\ [][NextDice]_vars

TypeOK ==
  /\ site_index \in SiteIndexes \cup {<<>>}
  /\ focused \in BOOLEAN
  /\ Len(query) <= MaxQueryLen
  /\ sel_idx \in -1..(MaxResults - 1)
  /\ Len(results) <= MaxResults
  /\ visible \in BOOLEAN

----------------------------------------------------------------------------
(* Vocabulary of the properties *)

\* title t contains the text q, letter case ignored
ContainsCI(t, q) ==
  \E i \in 0..(Len(t) - Len(q)) :
    \A j \in 1..Len(q) : CharToLowerCase(t[i + j]) = CharToLowerCase(q[j])

\* title t starts with the text q, letter case ignored
StartsWithCI(t, q) ==
  /\ Len(q) <= Len(t)
  /\ \A j \in 1..Len(q) : CharToLowerCase(t[j]) = CharToLowerCase(q[j])

\* the last event was a keyup whose handler built its list
Searched == event.op = "keyup" /\ event.threw # "SyntaxError"

ListTitles == {list[i].title : i \in 1..Len(list)}

TitlesOf(l) == [i \in 1..Len(l) |-> l[i].title]

\* the titles the patterns of q match
Matching(index, q) == {t \in Titles(index) : partial_test(q, t)}

\* all matches of every index and query text, sorted and not truncated
SortedTable ==
  LET t == [p \in SiteIndexes \X Queries |-> Sort(Candidates(p[1], p[2]))]
  IN  IF t = t THEN t ELSE t

\* the ranked list of the text now in the query input
CurrentLength ==
  IF RegExpThrows(query) THEN 0 ELSE Len(RankedTable[<<site_index, query>>])

ScoreEqual(a, b) == ~ScoreGreater(a, b) /\ ~ScoreGreater(b, a)

----------------------------------------------------------------------------
(* C1 *)

\* C1: after every keyup event and every clear trigger the selection cursor
\* is none (-1) or an index of the ranked list of the current query.
CursorValid_C1 ==
  event.op \in {"keyup", "click", "slash"} =>
    (sel_idx = -1 \/ (0 <= sel_idx /\ sel_idx < CurrentLength))

----------------------------------------------------------------------------
(* C2 *)

\* C2: filtering soundness: every title of the ranked list computed for a
\* query contains the query as a substring, letter case ignored.
FilterSound_C2 ==
  Searched => \A i \in 1..Len(list) : ContainsCI(list[i].title, event.query)

----------------------------------------------------------------------------
(* C3 *)

\* C3 as stated: filtering completeness for every query and index size: a
\* title that is not in the ranked list does not contain the query.
FilterComplete_C3_Original ==
  Searched =>
    \A t \in Titles(site_index) :
      t \notin ListTitles => ~ContainsCI(t, event.query)

\* C3 amended: for a non-empty query that at most 10 titles match, a title
\* that is not in the ranked list is not matched by the query and does not
\* contain it.
FilterComplete_C3 ==
  (/\ Searched
   /\ event.query # <<>>
   /\ Cardinality(Matching(site_index, event.query)) <= 10) =>
    \A t \in Titles(site_index) :
      t \notin ListTitles =>
        ~partial_test(event.query, t) /\ ~ContainsCI(t, event.query)

\* a search of a non-empty query that keeps some titles and drops others
FilterComplete_C3_Witness ==
  /\ Searched
  /\ event.query # <<>>
  /\ Cardinality(Matching(site_index, event.query)) <= 10
  /\ list # <<>>
  /\ \E t \in Titles(site_index) : t \notin ListTitles

----------------------------------------------------------------------------
(* C4 *)

\* C4: the ranked list is sorted by score descending and, on equal scores, by
\* lower-cased title ascending; for the index Goblin, Gorgon, Dragon and the
\* query "on" it is Dragon, Gorgon.
Sorted_C4 ==
  Searched =>
    /\ \A i \in 1..(Len(list) - 1) :
         /\ ~ScoreGreater(list[i + 1].score, list[i].score)
         /\ ScoreEqual(list[i].score, list[i + 1].score) =>
              ~StringLess(toLowerCase(list[i + 1].title),
                          toLowerCase(list[i].title))
    /\ (site_index = IndexSpecScenario /\ event.query = <<"o", "n">>) =>
         TitlesOf(list) = <<Dragon, Gorgon>>

----------------------------------------------------------------------------
(* C5 *)

\* C5 as stated: a title that starts with the query scores strictly higher
\* than, and precedes, every listed title that contains the query without
\* starting with it, for all title lengths.
PrefixFirst_C5_Original ==
  Searched =>
    \A t1 \in Titles(site_index) : \A j \in 1..Len(list) :
      (/\ event.query # <<>>
       /\ StartsWithCI(t1, event.query)
       /\ ContainsCI(list[j].title, event.query)
       /\ ~StartsWithCI(list[j].title, event.query)) =>
        \E i \in 1..(j - 1) :
          /\ list[i].title = t1
          /\ ScoreGreater(list[i].score, list[j].score)

\* C5 amended: the same when the title that starts with the query is less
\* than 10 times as long as the title that only contains it.
PrefixFirst_C5 ==
  Searched =>
    \A t1 \in Titles(site_index) : \A j \in 1..Len(list) :
      (/\ event.query # <<>>
       /\ StartsWithCI(t1, event.query)
       /\ ContainsCI(list[j].title, event.query)
       /\ ~StartsWithCI(list[j].title, event.query)
       /\ Len(t1) < 10 * Len(list[j].title)) =>
        \E i \in 1..(j - 1) :
          /\ list[i].title = t1
          /\ ScoreGreater(list[i].score, list[j].score)

\* a search that lists a title starting with the query and one that only
\* contains it
PrefixFirst_C5_Witness ==
  /\ Searched
  /\ event.query # <<>>
  /\ \E i, j \in 1..Len(list) :
       /\ StartsWithCI(list[i].title, event.query)
       /\ ContainsCI(list[j].title, event.query)
       /\ ~StartsWithCI(list[j].title, event.query)
       /\ Len(list[i].title) > Len(list[j].title)

----------------------------------------------------------------------------
(* C6 *)

\* C6: the ranked list, and what is rendered from it, never has more than 10
\* entries, and when more than 10 titles match it is the first 10 entries of
\* the sorted list.
Truncated_C6 ==
  /\ Len(list) <= 10
  /\ Len(results) <= 10
  /\ Searched =>
       LET all == SortedTable[<<site_index, event.query>>]
       IN  IF Len(all) > 10 THEN list = SubSeq(all, 1, 10) ELSE list = all

\* a search that more than 10 titles match, rendered
Truncated_C6_Witness ==
  /\ Searched
  /\ Len(SortedTable[<<site_index, event.query>>]) > 10
  /\ Len(list) = 10
  /\ Len(results) = 10
  /\ visible

----------------------------------------------------------------------------
(* C7 *)

\* C7: after a keyup event whose query is empty or is contained in no title,
\* the ranked list is empty and the results container is empty and hidden.
NoResultsHidden_C7 ==
  (/\ event.op = "keyup"
   /\ \/ event.query = <<>>
      \/ \A t \in Titles(site_index) : ~ContainsCI(t, event.query)) =>
    list = <<>> /\ results = <<>> /\ ~visible

----------------------------------------------------------------------------
(* C8 *)

\* C8: after a keyup event of a key other than ArrowDown, ArrowUp and Enter
\* the selection cursor is none.
OtherKeyResets_C8 ==
  (event.op = "keyup" /\ event.code \notin {"ArrowDown", "ArrowUp", "Enter"}) =>
    sel_idx = -1

----------------------------------------------------------------------------
(* C9 *)

\* C9: after a clear trigger (document click, '/' key binding, page load) the
\* query is empty, the results container is empty and hidden, and the
\* selection cursor is none.
ClearResets_C9 ==
  event.op \in {"click", "slash", "load"} =>
    query = <<>> /\ results = <<>> /\ ~visible /\ sel_idx = -1

----------------------------------------------------------------------------
(* C10 *)

\* C10: after an Enter keyup that navigated, the query is empty, the results
\* container is hidden and the selection cursor is none.
EnterIdle_C10 ==
  (event.op = "keyup" /\ event.code = "Enter" /\ event.nav # <<>>) =>
    query = <<>> /\ ~visible /\ sel_idx = -1

----------------------------------------------------------------------------
(* C11 *)

\* C11: an Enter keyup with a non-empty ranked list navigates exactly once,
\* to the first entry's URL when the cursor is none and to the URL of the
\* entry at the cursor otherwise; with an empty ranked list it does not
\* navigate.
EnterNavigates_C11 ==
  (event.op = "keyup" /\ event.code = "Enter") =>
    IF Len(list) > 0
      THEN /\ Len(event.nav) = 1
           /\ \/ sel_idx = -1 /\ event.nav[1] = list[1].url
              \/ /\ sel_idx + 1 \in DOMAIN list
                 /\ event.nav[1] = list[sel_idx + 1].url
      ELSE event.nav = <<>>

----------------------------------------------------------------------------
(* C13 *)

\* the links of a rendered container without their highlight
Links(r) == [i \in 1..Len(r) |-> [href |-> r[i].href, text |-> r[i].text]]

\* the last event was a keyup that rendered its list
Rendered ==
  /\ event.op = "keyup"
  /\ event.threw = NoError
  /\ event.code # "Enter"
  /\ Len(list) > 0

\* the step is an arrow keyup that found a non-empty ranked list
ArrowStep(code) ==
  /\ event'.op = "keyup"
  /\ event'.code = code
  /\ event'.threw = NoError
  /\ Len(list') > 0

\* what both arrow keys leave alone: the query, the index, the ranked list
\* of an unchanged query text, and the links rendered from it
ArrowFrame ==
  /\ query' = query
  /\ site_index' = site_index
  /\ Links(results') = [i \in 1..Len(list') |->
                          [href |-> list'[i].url, text |-> list'[i].title]]
  /\ (Searched /\ event.query = query) => list' = list
  /\ (Searched /\ event.query = query /\ Rendered) =>
       Links(results') = Links(results)

----------------------------------------------------------------------------
(* C14 *)

\* C14: after a render the container holds one link per entry of the ranked
\* list, in order, and the entries marked 'selected' are exactly the entry at
\* the cursor when the cursor is not none, and none when it is none.
RenderContract_C14 ==
  Rendered =>
    /\ visible
    /\ Links(results) = [i \in 1..Len(list) |->
                           [href |-> list[i].url, text |-> list[i].title]]
    /\ IF sel_idx = -1
         THEN \A i \in 1..Len(results) : results[i].class # "selected"
         ELSE /\ sel_idx + 1 \in 1..Len(results)
              /\ \A i \in 1..Len(results) :
                   results[i].class = "selected" <=> i = sel_idx + 1

----------------------------------------------------------------------------
(* C16 *)

\* C16: no event of the widget changes the title -> url index.
IndexUnchanged_C16 == [][site_index' = site_index]_vars

\* a highlight has been rendered and the index is one the page supplied
IndexUnchanged_C16_Witness ==
  /\ Rendered
  /\ \E i \in 1..Len(results) : results[i].class = "selected"
  /\ site_index \in SiteIndexes

----------------------------------------------------------------------------
(* C12 *)

\* C12: from cursor none and with the query fixed, after any ArrowDown and
\* ArrowUp keyups the cursor is none or an index of the ranked list; three
\* ArrowDown keyups on a 2-entry list leave it at 1.
ArrowBounds_C12 ==
  /\ sel_idx = -1 \/ (0 <= sel_idx /\ sel_idx < CurrentLength)
  /\ (trail = <<"ArrowDown", "ArrowDown", "ArrowDown">> /\ Len(list) = 2) =>
       sel_idx = 1

\* three ArrowDown keyups on a 2-entry list
ArrowBounds_C12_Witness ==
  /\ trail = <<"ArrowDown", "ArrowDown", "ArrowDown">>
  /\ Len(list) = 2
  /\ sel_idx = 1

----------------------------------------------------------------------------
(* C18 *)

\* C18: after delete_cookie(k), k is not a key of the vault and get_cookie(k)
\* is undefined, whatever value was stored under k.
Deleted_C18 ==
  event.op = "delete_cookie" =>
    /\ event.code \notin DOMAIN vault
    /\ get_cookie(vault, event.code) = Undefined

----------------------------------------------------------------------------
(* C17 *)

\* C17: after a first load without nav cookie and at least one toggle, every
\* later page load shows every section of default_nav that the user never
\* toggled.
DefaultsSurvive_C17 ==
  (event.op = "load" /\ toggled # {}) =>
    \A id \in DefaultSections \ toggled : nav_open[id]

----------------------------------------------------------------------------
(* C19 *)

DarkCookie == Truthy(get_cookie(vault, "dark_mode"))

\* C19: body has the class 'dark_mode' exactly when the dark_mode cookie of
\* the vault is truthy, and the button reads 'Undark Mode' exactly then; a
\* toggle inverts all three, so that two toggles in a row restore them.
DarkConsistent_C19 ==
  /\ [](/\ body_dark <=> DarkCookie
        /\ button = "Undark Mode" <=> body_dark)
  /\ [][event'.op = "toggle_dark_mode" =>
          /\ body_dark' = ~body_dark
          /\ DarkCookie' = ~DarkCookie
          /\ button' # button
          /\ button' \in {"Dark Mode", "Undark Mode"}]_vars

\* dark mode was switched on and off again on a page
DarkConsistent_C19_Witness ==
  /\ event.op = "toggle_dark_mode"
  /\ ~body_dark
  /\ "dark_mode" \in DOMAIN vault
  /\ button = "Dark Mode"

----------------------------------------------------------------------------
(* C20 *)

\* number of pending timers of chain id
PendingTimers(id) == Cardinality({i \in DOMAIN timers : timers[i] = id})

\* C20: each chain makes its own four updates '.', '..', '...', result in
\* that order and has a pending timer exactly while updates remain; once no
\* timer is pending every chain has made its four updates and dice_result
\* shows the result of the most recent new_dice.
DiceChains_C20 ==
  /\ \A id \in DOMAIN chains :
       /\ chains[id].shown \o chains[id].dice_out
            = <<".", "..", "...", chains[id].result>>
       /\ PendingTimers(id) = IF chains[id].dice_out # <<>> THEN 1 ELSE 0
  /\ timers = <<>> =>
       /\ \A id \in DOMAIN chains : Len(chains[id].shown) = 4
       /\ dice_result = chains[Len(chains)].result

\* all timers have fired after a roll that began while an earlier chain with
\* another result was pending
DiceChains_C20_Witness ==
  /\ timers = <<>>
  /\ Len(chains) >= 2
  /\ chains[Len(chains)].pending > 0
  /\ chains[Len(chains) - 1].result # chains[Len(chains)].result

====
